---- MODULE Spec2Model ----
(***************************************************************************)
(* Model of the conversational orchestration graph of the voice assistant  *)
(* (src/llm_rag_module.py) and of the emptiness check the pipeline driver  *)
(* applies to chat's return value (src/voice_pipeline.py).                 *)
(*                                                                         *)
(* A chat call streams the compiled graph query_or_respond -> tools ->     *)
(* generate on the MemorySaver thread named by the session id.  The        *)
(* checkpointer saves the thread state after the input is applied and      *)
(* after every node, so a node that raises leaves the last saved state.    *)
(***************************************************************************)
EXTENDS Naturals, Sequences, FiniteSets, TLC

\* ------------------------------------------------------------------ bounds
MaxTurns == 2          \* chat calls started in a behaviour
MaxToolCalls == 2      \* tool call requests in one completion response
MaxAdds == 2           \* add_documents calls in a behaviour
MaxBatch == 2          \* documents in one add_documents call
MaxFiles == 2          \* audio files in one batch_process_audio_files call

\* --------------------------------------------------------------- constants
TopK == 2              \* similarity_search(query, k=2)

Sessions == {"default-thread", "s1"}
Callers == {"main", "worker"}
SeqCallers == {"main"}
UserTexts == {"What is the refund policy?"}
AnswerTexts == {"You can get a refund within 30 days.", ""}
Queries == {"refund policy"}
AudioFiles == {"a.m4a", "b.m4a"}
DocTexts == {"Returns need a receipt.", "Shipping takes 3 days."}
ChatErrorText == "Error occurred during chat."
ToolErrorText == "Error: RuntimeError('index unavailable')\n Please fix your mistakes."
Directive ==
    "You are an assistant for question-answering tasks. "
        \o "Use the following pieces of retrieved context to answer "
        \o "the question. If you don't know the answer, say that you "
        \o "don't know. Use three sentences maximum and keep the "
        \o "answer concise.\n\n"

\* The documents the loaded index ranks for a query, best first.
IndexDocs ==
    << [metadata |-> "{'src': 'policy.md'}", page_content |-> "Refunds within 30 days."],
       [metadata |-> "{'src': 'faq.md'}", page_content |-> "Keep the receipt."],
       [metadata |-> "{'src': 'terms.md'}", page_content |-> "No cash refunds."] >>

\* ---------------------------------------------------------------- messages
NoId == 0

HumanMessage(text) ==
    [type |-> "human", content |-> text, tool_calls |-> <<>>, tool_call_id |-> NoId]

SystemMessage(text) ==
    [type |-> "system", content |-> text, tool_calls |-> <<>>, tool_call_id |-> NoId]

AIMessage(text, calls) ==
    [type |-> "ai", content |-> text, tool_calls |-> calls, tool_call_id |-> NoId]

ToolMessage(text, id) ==
    [type |-> "tool", content |-> text, tool_calls |-> <<>>, tool_call_id |-> id]

ToolCall(id, q) == [id |-> id, name |-> "retrieve", query |-> q]

\* ------------------------------------------------------- knowledge index
VARIABLES
    vector_store,  \* self.vector_store: the documents of the index in memory
    disk,          \* the index as persisted under vector_db_path
    adds,          \* add_documents calls made so far
    lastAdd        \* the latest add_documents call: input, outcome, state before

adminVars == <<vector_store, disk, adds, lastAdd>>

\* -------------------------------------------------------- pipeline driver
VARIABLES
    dpc,        \* process_audio_file: "idle", "chat" (inside chat) or "returned"
    dres,       \* process_audio_file: its local dict `result`
    dret,       \* process_audio_file: what it returned
    bpc,        \* batch_process_audio_files: "idle", "loop", "returned", "raised"
    files,      \* batch_process_audio_files: audio_files
    bi,         \* batch_process_audio_files: position in audio_files
    results     \* batch_process_audio_files: results

\* ------------------------------------------------------- live conversation
VARIABLES
    lpc,        \* process_live_conversation: "idle", "chat" or "returned"
    lres,       \* process_live_conversation: its local dict `result`
    \* history variables, recorded for the properties only
    stages,     \* the stages the latest live call has called, in order
    heard,      \* what record_and_transcribe returned to the latest live call
    stageErrors \* the stages of the latest live call that raised inside

liveVars == <<lpc, lres, stages, heard, stageErrors>>

driverVars == <<dpc, dres, dret, bpc, files, bi, results, liveVars>>

\* ----------------------------------------------------------- pure helpers
Min(a, b) == IF a < b THEN a ELSE b

RECURSIVE Join(_, _)
\* sep.join(parts) on strings
Join(parts, sep) ==
    IF parts = <<>> THEN ""
    ELSE IF Len(parts) = 1 THEN parts[1]
    ELSE parts[1] \o sep \o Join(Tail(parts), sep)

Reverse(s) == [i \in 1..Len(s) |-> s[Len(s) + 1 - i]]

IsPrefix(s, t) == Len(s) <= Len(t) /\ SubSeq(t, 1, Len(s)) = s

default_session_id_other == "s1"

\* chat(self, user_input, session_id="default-thread"): the session id of a
\* call that passes none, as every call of the pipeline driver does.
default_session_id == "default-thread"

thread_id_shared(session_id) == "default-thread"

\* chat: config={"configurable": {"thread_id": session_id}}
thread_id(session_id) == session_id

add_messages_overwrite(left, right) == right

\* The messages channel's reducer: messages without a matching id are appended.
add_messages(left, right) == left \o right

\* vector_store.similarity_search(query, k): the k best documents of the index.
similarity_search(query, k) == SubSeq(vector_store, 1, Min(k, Len(vector_store)))

\* The retrieve tool's serialized content for a query.
retrieve(query) ==
    LET retrieved_docs == similarity_search(query, TopK)
    IN Join([i \in 1..Len(retrieved_docs) |->
                "Source: " \o retrieved_docs[i].metadata \o "\nContent: "
                    \o retrieved_docs[i].page_content],
            "\n\n")

tools_condition_always_end(messages) == "END"

tools_condition_always_tools(messages) == "tools"

\* tools_condition: route on the tool calls of the last message.
tools_condition(messages) ==
    IF messages # <<>> /\ messages[Len(messages)].type = "ai"
           /\ Len(messages[Len(messages)].tool_calls) > 0
    THEN "tools" ELSE "END"

edge_back_to_query(node) ==
    IF node = "tools" THEN "generate" ELSE "query_or_respond"

\* add_edge("tools", "generate"); add_edge("generate", END)
edge(node) == IF node = "tools" THEN "generate" ELSE "END"

RECURSIVE recent_tool_messages_no_break(_)
recent_tool_messages_no_break(messages) ==
    IF messages = <<>> THEN <<>>
    ELSE IF messages[Len(messages)].type = "tool"
         THEN <<messages[Len(messages)]>>
                  \o recent_tool_messages_no_break(SubSeq(messages, 1, Len(messages) - 1))
         ELSE recent_tool_messages_no_break(SubSeq(messages, 1, Len(messages) - 1))

\* generate: the trailing tool messages, collected from the tail backwards
\* until the first message that is not a tool message.
RECURSIVE recent_tool_messages(_)
recent_tool_messages(messages) ==
    IF messages = <<>> THEN <<>>
    ELSE IF messages[Len(messages)].type = "tool"
         THEN <<messages[Len(messages)]>>
                  \o recent_tool_messages(SubSeq(messages, 1, Len(messages) - 1))
         ELSE <<>>

\* generate: recent_tool_messages[::-1]
tool_messages(messages) == Reverse(recent_tool_messages(messages))

\* generate: "\n\n".join(doc.content for doc in tool_messages)
docs_content(messages) ==
    LET tm == tool_messages(messages)
    IN Join([i \in 1..Len(tm) |-> tm[i].content], "\n\n")

RECURSIVE conversation_messages_keep_tool_calls(_)
conversation_messages_keep_tool_calls(messages) ==
    IF messages = <<>> THEN <<>>
    ELSE LET m == Head(messages)
             rest == conversation_messages_keep_tool_calls(Tail(messages))
         IN IF m.type \in {"human", "system", "ai"}
            THEN <<m>> \o rest ELSE rest

\* generate: the messages replayed in the final prompt.
RECURSIVE conversation_messages(_)
conversation_messages(messages) ==
    IF messages = <<>> THEN <<>>
    ELSE LET m == Head(messages)
             rest == conversation_messages(Tail(messages))
         IN IF m.type \in {"human", "system"}
                \/ (m.type = "ai" /\ Len(m.tool_calls) = 0)
            THEN <<m>> \o rest ELSE rest

\* generate: [SystemMessage(system_message_content)] + conversation_messages
generate_prompt(messages) ==
    <<SystemMessage(Directive \o docs_content(messages))>>
        \o conversation_messages(messages)

\* chat: `return last.content`, last being the last message of the last step.
chat_return_first(messages) == [type |-> "str", value |-> messages[1].content]

chat_return(messages) ==
    [type |-> "str", value |-> messages[Len(messages)].content]

\* The pipeline driver's test on chat's return value: `if not response_text`.
driver_rejects(response_text) == response_text = ""

\* ------------------------------------------------------------------- state
VARIABLES
    memory,     \* MemorySaver: session id -> messages of the latest checkpoint
    turns,      \* chat calls started so far
    nextId,     \* next fresh tool call id issued by the completion service
    pc,         \* per caller: "idle", a node name, or "returned"
    sid,        \* per caller: the session id of its chat call
    state,      \* per caller: the graph run's MessagesState
    last,       \* per caller: chat's local `last`
    result,     \* per caller: what chat returned
    \* history variables, recorded for the properties only
    log,        \* session id -> every message handed to the reducer, in order
    startHist,  \* per caller: the session history when the call started
    raised,     \* per caller: the exception raised inside the turn, or "none"
    llmCalls,   \* per caller: completion invocations made in the turn
    withTools,  \* per caller: for each completion invocation, were tools bound
    ran,        \* per caller: the nodes run in the turn, in order
    toolErrs,   \* per caller: ids of the tool calls whose execution raised
    invoked,    \* per caller: the tool calls retrieve was run for, in order
    docs,       \* per caller: the context block generate built
    prompt      \* per caller: the messages of the latest completion invocation

callVars == <<pc, sid, state, last, result>>
histVars ==
    <<log, startHist, raised, llmCalls, withTools, ran, toolErrs, invoked, docs, prompt>>
vars == <<memory, turns, nextId, callVars, histVars, adminVars, driverVars>>

\* No add_documents call has been made yet.
NoAdd ==
    [documents |-> <<>>, raised |-> "nocall", returned |-> FALSE,
     store_before |-> IndexDocs, disk_before |-> IndexDocs]

\* __init__: the index is loaded from vector_db_path.
InitAdmin ==
    /\ vector_store = IndexDocs
    /\ disk = IndexDocs
    /\ adds = 0
    /\ lastAdd = NoAdd

\* process_audio_file: the dict `result` as first built.
NewResult ==
    [input_text |-> "", response_text |-> "", output_audio |-> "",
     success |-> FALSE]

\* A Python value returned by process_audio_file: a dict or None.
Dict(d) == [kind |-> "dict", dict |-> d]
None == [kind |-> "None", dict |-> NewResult]

InitDriver ==
    /\ dpc = "idle"
    /\ dres = NewResult
    /\ dret = None
    /\ bpc = "idle"
    /\ files = <<>>
    /\ bi = 1
    /\ results = <<>>
    /\ lpc = "idle"
    /\ lres = NewResult
    /\ stages = <<>>
    /\ heard = ""
    /\ stageErrors = {}

NoResult == [type |-> "none", value |-> ""]
Str(text) == [type |-> "str", value |-> text]

Init ==
    /\ memory = [s \in Sessions |-> <<>>]
    /\ turns = 0
    /\ nextId = 1
    /\ pc = [c \in Callers |-> "idle"]
    /\ sid = [c \in Callers |-> "default-thread"]
    /\ state = [c \in Callers |-> <<>>]
    /\ last = [c \in Callers |-> HumanMessage("")]
    /\ result = [c \in Callers |-> NoResult]
    /\ log = [s \in Sessions |-> <<>>]
    /\ startHist = [c \in Callers |-> <<>>]
    /\ raised = [c \in Callers |-> "none"]
    /\ llmCalls = [c \in Callers |-> 0]
    /\ withTools = [c \in Callers |-> <<>>]
    /\ ran = [c \in Callers |-> <<>>]
    /\ toolErrs = [c \in Callers |-> {}]
    /\ invoked = [c \in Callers |-> <<>>]
    /\ docs = [c \in Callers |-> ""]
    /\ prompt = [c \in Callers |-> <<>>]
    /\ InitAdmin
    /\ InitDriver

\* ----------------------------------------------------------------- actions
\* A node's return value is merged by the reducer and the checkpoint is saved.
Commit(c, writes) ==
    LET st == add_messages(state[c], writes)
    IN /\ state' = [state EXCEPT ![c] = st]
       /\ memory' = [memory EXCEPT ![thread_id(sid[c])] = st]
       /\ log' = [log EXCEPT ![sid[c]] = @ \o writes]
       /\ last' = [last EXCEPT ![c] = st[Len(st)]]

\* chat's except branch: the exception is printed and a fixed text returned.
ChatRaises(c, exc) ==
    /\ raised' = [raised EXCEPT ![c] = exc]
    /\ result' = [result EXCEPT ![c] = Str(ChatErrorText)]
    /\ pc' = [pc EXCEPT ![c] = "returned"]
    /\ UNCHANGED <<memory, log, state, last>>

\* chat starts streaming the graph: the thread's checkpoint is loaded, the user
\* message is merged into it and the input checkpoint is saved.  Nodes left
\* pending by an earlier run that raised are discarded: the run starts at the
\* entry point query_or_respond.
StartStream(c, s, user_input) ==
    /\ pc[c] \in {"idle", "returned"}
    /\ turns < MaxTurns
    /\ turns' = turns + 1
    /\ LET st == add_messages(memory[thread_id(s)], <<HumanMessage(user_input)>>)
       IN /\ state' = [state EXCEPT ![c] = st]
          /\ memory' = [memory EXCEPT ![thread_id(s)] = st]
          /\ log' = [log EXCEPT ![s] = @ \o <<HumanMessage(user_input)>>]
          /\ last' = [last EXCEPT ![c] = st[Len(st)]]
    /\ sid' = [sid EXCEPT ![c] = s]
    /\ pc' = [pc EXCEPT ![c] = "query_or_respond"]
    /\ result' = [result EXCEPT ![c] = NoResult]
    /\ startHist' = [startHist EXCEPT ![c] = memory[thread_id(s)]]
    /\ raised' = [raised EXCEPT ![c] = "none"]
    /\ llmCalls' = [llmCalls EXCEPT ![c] = 0]
    /\ withTools' = [withTools EXCEPT ![c] = <<>>]
    /\ ran' = [ran EXCEPT ![c] = <<>>]
    /\ toolErrs' = [toolErrs EXCEPT ![c] = {}]
    /\ invoked' = [invoked EXCEPT ![c] = <<>>]
    /\ docs' = [docs EXCEPT ![c] = ""]
    /\ prompt' = [prompt EXCEPT ![c] = <<>>]
    /\ UNCHANGED nextId
    /\ UNCHANGED adminVars

\* chat called directly.
StartChat(c, s, user_input) ==
    /\ StartStream(c, s, user_input)
    /\ UNCHANGED driverVars

\* The completion service is invoked with `messages`; `tools` tells whether
\* the retrieve tool was bound.
InvokeLLM(c, messages, tools) ==
    /\ llmCalls' = [llmCalls EXCEPT ![c] = @ + 1]
    /\ withTools' = [withTools EXCEPT ![c] = Append(@, tools)]
    /\ prompt' = [prompt EXCEPT ![c] = messages]

\* query_or_respond, the completion call fails.
QueryOrRespondRaises(c) ==
    /\ pc[c] = "query_or_respond"
    /\ ran' = [ran EXCEPT ![c] = Append(@, "query_or_respond")]
    /\ InvokeLLM(c, state[c], TRUE)
    /\ ChatRaises(c, "CompletionFailure")
    /\ UNCHANGED <<turns, nextId, sid, startHist, toolErrs, invoked, docs>>
    /\ UNCHANGED adminVars
    /\ UNCHANGED driverVars

\* The responses the completion service can give when the tool is bound.
FirstResponsesOver(queries) ==
    {AIMessage(text, <<>>) : text \in AnswerTexts}
        \cup {AIMessage("", [i \in 1..n |-> ToolCall(nextId + i - 1, q)]) :
                  n \in 1..MaxToolCalls, q \in queries}

FirstResponses == FirstResponsesOver(Queries)

\* query_or_respond returns; tools_condition routes to tools or to END, and at
\* END chat returns the content of the last message.
QueryOrRespondReturnsWith(c, queries) ==
    /\ pc[c] = "query_or_respond"
    /\ ran' = [ran EXCEPT ![c] = Append(@, "query_or_respond")]
    /\ InvokeLLM(c, state[c], TRUE)
    /\ \E response \in FirstResponsesOver(queries) :
          /\ Commit(c, <<response>>)
          /\ nextId' = nextId + Len(response.tool_calls)
          /\ IF tools_condition(add_messages(state[c], <<response>>)) = "tools"
             THEN /\ pc' = [pc EXCEPT ![c] = "tools"]
                  /\ UNCHANGED result
             ELSE /\ pc' = [pc EXCEPT ![c] = "returned"]
                  /\ result' = [result EXCEPT ![c] =
                                    chat_return(add_messages(state[c], <<response>>))]
    /\ UNCHANGED <<turns, sid, startHist, raised, toolErrs, invoked, docs>>
    /\ UNCHANGED adminVars
    /\ UNCHANGED driverVars

QueryOrRespondReturns(c) == QueryOrRespondReturnsWith(c, Queries)

ToolNode_no_id(messages, failing) ==
    LET calls == messages[Len(messages)].tool_calls
    IN [i \in 1..Len(calls) |->
           IF i \in failing
           THEN ToolMessage(ToolErrorText, NoId)
           ELSE ToolMessage(retrieve(calls[i].query), NoId)]

RECURSIVE ToolNode_drop_failed_from(_, _, _)
ToolNode_drop_failed_from(calls, i, failing) ==
    IF i > Len(calls) THEN <<>>
    ELSE IF i \in failing THEN ToolNode_drop_failed_from(calls, i + 1, failing)
    ELSE <<ToolMessage(retrieve(calls[i].query), calls[i].id)>>
             \o ToolNode_drop_failed_from(calls, i + 1, failing)

ToolNode_drop_failed(messages, failing) ==
    ToolNode_drop_failed_from(messages[Len(messages)].tool_calls, 1, failing)

ToolNode_reversed(messages, failing) ==
    LET calls == messages[Len(messages)].tool_calls
        n == Len(calls)
    IN [i \in 1..n |->
           IF (n + 1 - i) \in failing
           THEN ToolMessage(ToolErrorText, calls[n + 1 - i].id)
           ELSE ToolMessage(retrieve(calls[n + 1 - i].query), calls[n + 1 - i].id)]

\* The tool node: every tool call of the last message is executed, in request
\* order.  ToolNode is built with its default error handling, which catches
\* the exception of a raising tool and answers the call with a tool message
\* "Error: <repr>\n Please fix your mistakes." under the request's id.
ToolNode(messages, failing) ==
    LET calls == messages[Len(messages)].tool_calls
    IN [i \in 1..Len(calls) |->
           IF i \in failing
           THEN ToolMessage(ToolErrorText, calls[i].id)
           ELSE ToolMessage(retrieve(calls[i].query), calls[i].id)]

\* The tool node runs the tool once for each tool call of the last message;
\* retrieve passes the query to similarity_search as its first statement.
tool_invocations(messages) == messages[Len(messages)].tool_calls

Tools(c) ==
    /\ pc[c] = "tools"
    /\ ran' = [ran EXCEPT ![c] = Append(@, "tools")]
    /\ \E failing \in SUBSET (1..Len(last[c].tool_calls)) :
          /\ Commit(c, ToolNode(state[c], failing))
          /\ toolErrs' = [toolErrs EXCEPT ![c] =
                             {last[c].tool_calls[i].id : i \in failing}]
    /\ invoked' = [invoked EXCEPT ![c] = tool_invocations(state[c])]
    /\ pc' = [pc EXCEPT ![c] = edge("tools")]
    /\ UNCHANGED <<turns, nextId, sid, result, startHist, raised, llmCalls,
                   withTools, docs, prompt>>
    /\ UNCHANGED adminVars
    /\ UNCHANGED driverVars

\* generate, the completion call fails.
GenerateRaises(c) ==
    /\ pc[c] = "generate"
    /\ ran' = [ran EXCEPT ![c] = Append(@, "generate")]
    /\ docs' = [docs EXCEPT ![c] = docs_content(state[c])]
    /\ InvokeLLM(c, generate_prompt(state[c]), FALSE)
    /\ ChatRaises(c, "CompletionFailure")
    /\ UNCHANGED <<turns, nextId, sid, startHist, toolErrs, invoked>>
    /\ UNCHANGED adminVars
    /\ UNCHANGED driverVars

\* generate returns the final answer, the graph ends and chat returns it.
GenerateReturns(c) ==
    /\ pc[c] = "generate"
    /\ ran' = [ran EXCEPT ![c] = Append(@, "generate")]
    /\ docs' = [docs EXCEPT ![c] = docs_content(state[c])]
    /\ InvokeLLM(c, generate_prompt(state[c]), FALSE)
    /\ \E text \in AnswerTexts :
          /\ Commit(c, <<AIMessage(text, <<>>)>>)
          /\ IF edge("generate") = "END"
             THEN /\ pc' = [pc EXCEPT ![c] = "returned"]
                  /\ result' = [result EXCEPT ![c] =
                         chat_return(add_messages(state[c], <<AIMessage(text, <<>>)>>))]
             ELSE /\ pc' = [pc EXCEPT ![c] = edge("generate")]
                  /\ UNCHANGED result
    /\ UNCHANGED <<turns, nextId, sid, startHist, raised, toolErrs, invoked>>
    /\ UNCHANGED adminVars
    /\ UNCHANGED driverVars

\* The steps of a graph run that has started.
NodeStep(c) ==
    \/ QueryOrRespondRaises(c)
    \/ QueryOrRespondReturns(c)
    \/ Tools(c)
    \/ GenerateRaises(c)
    \/ GenerateReturns(c)

InFlight(c) == pc[c] \in {"query_or_respond", "tools", "generate"}

\* chat is called by one thread, one call after the other.
Next ==
    \E c \in SeqCallers :
        \/ \E s \in Sessions, text \in UserTexts : StartChat(c, s, text)
        \/ NodeStep(c)

Spec == Init /\ [][Next]_vars

\* chat is called by two threads on any session ids: nothing in chat or in the
\* compiled graph keeps two runs on one thread id apart.
NextConc ==
    \E c \in Callers :
        \/ \E s \in Sessions, text \in UserTexts : StartChat(c, s, text)
        \/ NodeStep(c)

SpecConc == Init /\ [][NextConc]_vars

\* The completion service may also request retrieve with an empty query.
ArgQueries == Queries \cup {""}

NextArgs ==
    \E c \in SeqCallers :
        \/ \E s \in Sessions, text \in UserTexts : StartChat(c, s, text)
        \/ QueryOrRespondRaises(c)
        \/ QueryOrRespondReturnsWith(c, ArgQueries)
        \/ Tools(c)
        \/ GenerateRaises(c)
        \/ GenerateReturns(c)

SpecArgs == Init /\ [][NextArgs]_vars

\* What the user of each session says.
SessionText ==
    [s \in Sessions |->
        IF s = "default-thread" THEN "What is the refund policy?"
        ELSE "Is there a warranty?"]

\* Every session has had one turn, answered directly.
PriorHistory ==
    [s \in Sessions |->
        <<HumanMessage(SessionText[s]),
          AIMessage("You can get a refund within 30 days.", <<>>)>>]

InitDistinct ==
    /\ memory = PriorHistory
    /\ log = PriorHistory
    /\ turns = 0
    /\ nextId = 1
    /\ pc = [c \in Callers |-> "idle"]
    /\ sid = [c \in Callers |-> "default-thread"]
    /\ state = [c \in Callers |-> <<>>]
    /\ last = [c \in Callers |-> HumanMessage("")]
    /\ result = [c \in Callers |-> NoResult]
    /\ startHist = [c \in Callers |-> <<>>]
    /\ raised = [c \in Callers |-> "none"]
    /\ llmCalls = [c \in Callers |-> 0]
    /\ withTools = [c \in Callers |-> <<>>]
    /\ ran = [c \in Callers |-> <<>>]
    /\ toolErrs = [c \in Callers |-> {}]
    /\ invoked = [c \in Callers |-> <<>>]
    /\ docs = [c \in Callers |-> ""]
    /\ prompt = [c \in Callers |-> <<>>]
    /\ InitAdmin
    /\ InitDriver

\* Two threads call chat once each, on two distinct session ids.
StartChatDistinct(c, s) ==
    /\ pc[c] = "idle"
    /\ \A d \in Callers \ {c} : pc[d] # "idle" => sid[d] # s
    /\ StartChat(c, s, SessionText[s])

NextDistinct ==
    \E c \in Callers :
        \/ \E s \in Sessions : StartChatDistinct(c, s)
        \/ NodeStep(c)

SpecDistinct == InitDistinct /\ [][NextDistinct]_vars

\* ------------------------------------------------------ knowledge update
\* The batches add_documents is called with.
DocBatches ==
    UNION {[1..n -> DocTexts] : n \in 0..MaxBatch}

\* add_documents: Document(page_content=content) for content in documents
wrap_documents(documents) ==
    [i \in 1..Len(documents) |->
        [metadata |-> "{}", page_content |-> documents[i]]]

\* add_documents: True at the end of the try block, False from the except
\* branch, whatever was raised.
add_documents_result(exc) == exc = "none"

\* add_documents(documents).  The index's add_documents may raise (nothing is
\* added), and so may save_local (the documents are in the index in memory
\* but not in the persisted copy).
AddDocuments(documents, exc) ==
    /\ adds < MaxAdds
    /\ adds' = adds + 1
    /\ vector_store' =
           IF exc = "IngestionFailure" THEN vector_store
           ELSE vector_store \o wrap_documents(documents)
    /\ disk' =
           IF exc = "none" THEN vector_store \o wrap_documents(documents)
           ELSE disk
    /\ lastAdd' = [documents |-> documents, raised |-> exc,
                   returned |-> add_documents_result(exc),
                   store_before |-> vector_store, disk_before |-> disk]
    /\ UNCHANGED <<memory, turns, nextId, callVars, histVars, driverVars>>

NextAdmin ==
    \E documents \in DocBatches,
       exc \in {"none", "IngestionFailure", "PersistenceFailure"} :
        AddDocuments(documents, exc)

SpecAdmin == Init /\ [][NextAdmin]_vars

\* -------------------------------------------------------- pipeline driver
\* What stt.transcribe_from_file gives for a file: it raises FileNotFoundError
\* for a missing file, returns "" when transcription fails, else the text.
Transcriptions == {"FileNotFoundError", ""} \cup UserTexts

\* process_audio_file up to its call of chat.  A missing file (the exception
\* is caught) and an empty transcription return `result` as first built;
\* otherwise input_text is stored and chat is called on its default session.
ProcessAudioFileTranscribe ==
    /\ bpc = "loop" /\ bi <= Len(files) /\ dpc = "idle"
    /\ \E input_text \in Transcriptions :
          IF input_text \in {"FileNotFoundError", ""}
          THEN /\ dres' = NewResult
               /\ dret' = Dict(NewResult)
               /\ dpc' = "returned"
               /\ UNCHANGED <<memory, turns, nextId, callVars, histVars, adminVars>>
          ELSE /\ dres' = [NewResult EXCEPT !.input_text = input_text]
               /\ dret' = None
               /\ dpc' = "chat"
               /\ StartStream("main", default_session_id, input_text)
    /\ UNCHANGED <<bpc, files, bi, results, liveVars>>

\* process_audio_file after chat has returned: an empty response returns
\* `result`; otherwise response_text is stored and the end of the try block is
\* reached, where the function ends without a return statement.
ProcessAudioFileRespond ==
    /\ dpc = "chat" /\ pc["main"] = "returned"
    /\ IF driver_rejects(result["main"].value)
       THEN /\ dret' = Dict(dres)
            /\ UNCHANGED dres
       ELSE /\ dres' = [dres EXCEPT !.response_text = result["main"].value]
            /\ dret' = None
    /\ dpc' = "returned"
    /\ UNCHANGED <<memory, turns, nextId, callVars, histVars, adminVars,
                   bpc, files, bi, results, liveVars>>

\* batch_process_audio_files is called with a list of audio files.
BatchStart(audio_files) ==
    /\ bpc = "idle"
    /\ bpc' = "loop"
    /\ files' = audio_files
    /\ bi' = 1
    /\ results' = <<>>
    /\ UNCHANGED <<memory, turns, nextId, callVars, histVars, adminVars,
                   dpc, dres, dret, liveVars>>

\* The loop body after process_audio_file returned: result["input_file"] is
\* assigned, which raises TypeError when result is None, and the result is
\* appended.
BatchCollect ==
    /\ bpc = "loop" /\ dpc = "returned"
    /\ IF dret.kind = "None"
       THEN /\ bpc' = "raised"
            /\ UNCHANGED <<bi, results>>
       ELSE /\ results' = Append(results,
                                 [input_file |-> files[bi], result |-> dret.dict])
            /\ bi' = bi + 1
            /\ UNCHANGED bpc
    /\ dpc' = "idle"
    /\ UNCHANGED <<memory, turns, nextId, callVars, histVars, adminVars,
                   dres, dret, files, liveVars>>

\* The loop is over: results is returned.
BatchReturn ==
    /\ bpc = "loop" /\ dpc = "idle" /\ bi > Len(files)
    /\ bpc' = "returned"
    /\ UNCHANGED <<memory, turns, nextId, callVars, histVars, adminVars,
                   dpc, dres, dret, files, bi, results, liveVars>>

FileLists == UNION {[1..n -> AudioFiles] : n \in 0..MaxFiles}

NextDriver ==
    \/ \E audio_files \in FileLists : BatchStart(audio_files)
    \/ ProcessAudioFileTranscribe
    \/ (dpc = "chat" /\ NodeStep("main"))
    \/ ProcessAudioFileRespond
    \/ BatchCollect
    \/ BatchReturn

SpecDriver == Init /\ [][NextDriver]_vars

\* ------------------------------------------------------- live conversation
\* What stt.record_and_transcribe gives: the text, or "" when recording or
\* transcription raised (the exception is caught inside).
Recordings == {""} \cup UserTexts

\* process_live_conversation's output_audio_path, by default.
LiveOutputPath == "live_response.wav"

\* process_live_conversation up to its call of chat: `result` is built,
\* the recording is transcribed, an empty text returns `result` as built;
\* otherwise input_text is stored and chat is called on its default session.
\* A batch call that returned or raised earlier has left no frame: its locals
\* are gone.
LiveTranscribe ==
    /\ lpc \in {"idle", "returned"} /\ dpc = "idle" /\ bpc # "loop"
    /\ \E input_text \in Recordings :
          /\ heard' = input_text
          /\ stageErrors' = {}
          /\ IF input_text = ""
             THEN /\ lres' = NewResult
                  /\ stages' = <<"transcription">>
                  /\ lpc' = "returned"
                  /\ UNCHANGED <<memory, turns, nextId, callVars, histVars,
                                 adminVars>>
             ELSE /\ lres' = [NewResult EXCEPT !.input_text = input_text]
                  /\ stages' = <<"transcription", "chat">>
                  /\ lpc' = "chat"
                  /\ StartStream("main", default_session_id, input_text)
    /\ dres' = NewResult /\ dret' = None
    /\ bpc' = "idle" /\ files' = <<>> /\ bi' = 1 /\ results' = <<>>
    /\ UNCHANGED dpc

\* Did chat raise inside (it then returned its fixed text).
ChatErrors == IF raised["main"] # "none" THEN {"chat"} ELSE {}

\* process_live_conversation after chat has returned: an empty response
\* returns `result`; otherwise response_text is stored, text_to_speech_file
\* is called (it gives the path, or "" when it raised inside) and its value
\* stored unchecked, text_to_speech_stream is called (True, or False when it
\* raised inside) and its value dropped, success is set and `result` returned.

LiveRespond ==
    /\ lpc = "chat" /\ pc["main"] = "returned"
    /\ IF driver_rejects(result["main"].value)
       THEN /\ stageErrors' = ChatErrors
            /\ UNCHANGED <<lres, stages>>
       ELSE \E output_audio \in {LiveOutputPath, ""}, played \in BOOLEAN :
               /\ lres' = [lres EXCEPT !.response_text = result["main"].value,
                                       !.output_audio = output_audio,
                                       !.success = TRUE]
               /\ stages' = Append(stages, "synthesis")
               /\ stageErrors' = ChatErrors \cup
                      (IF output_audio = "" \/ ~played
                       THEN {"synthesis"} ELSE {})
    /\ lpc' = "returned"
    /\ UNCHANGED <<memory, turns, nextId, callVars, histVars, adminVars,
                   dpc, dres, dret, bpc, files, bi, results, heard>>

\* The pipeline driver as one thread: a batch of files, then live
\* conversations, one call after the other.
NextPipeline ==
    \/ \E audio_files \in FileLists : (lpc = "idle" /\ BatchStart(audio_files))
    \/ ProcessAudioFileTranscribe
    \/ ((dpc = "chat" \/ lpc = "chat") /\ NodeStep("main"))
    \/ ProcessAudioFileRespond
    \/ BatchCollect
    \/ BatchReturn
    \/ LiveTranscribe
    \/ LiveRespond

SpecPipeline == Init /\ [][NextPipeline]_vars

\* -------------------------------------------------------------- properties
SeqRange(q) == {q[i] : i \in 1..Len(q)}

Returned(c) == pc[c] = "returned"

\* The history of the caller's session, as the Session Store holds it.
history_of(s) == memory[s]

\* What the caller's turn has added to its session's history so far.
TurnMessages(c) ==
    SubSeq(history_of(sid[c]), Len(startHist[c]) + 1, Len(history_of(sid[c])))

\* The turn got a first completion response, with or without tool calls.
HasFirstResponse(c) ==
    /\ pc[c] # "idle"
    /\ Len(TurnMessages(c)) >= 2
    /\ TurnMessages(c)[2].type = "ai"

FirstResponse(c) == TurnMessages(c)[2]

RECURSIVE OnlyToolMessages(_)
OnlyToolMessages(messages) ==
    IF messages = <<>> THEN <<>>
    ELSE IF Head(messages).type = "tool"
         THEN <<Head(messages)>> \o OnlyToolMessages(Tail(messages))
         ELSE OnlyToolMessages(Tail(messages))

\* chat's result tells the caller that the turn failed: it is not a plain
\* text, or at least the driver's emptiness check rejects it.
ReportedAsFailure(c) ==
    result[c].type # "str" \/ driver_rejects(result[c].value)

\* C1: a session's history is exactly the messages appended to it, in append
\* order (nothing lost, duplicated or reordered), and the history a turn
\* started from is a prefix of the history during and after the turn.
C1_HistoryIsAppendLog ==
    /\ \A s \in Sessions : history_of(s) = log[s]
    /\ \A c \in Callers :
          pc[c] # "idle" =>
              /\ IsPrefix(startHist[c], history_of(sid[c]))
              /\ Len(history_of(sid[c])) > Len(startHist[c])

\* Two turns have completed on one session, the second one with a tool round.
C1_Witness ==
    \E c \in Callers :
        /\ Returned(c) /\ turns = 2 /\ raised[c] = "none"
        /\ Len(startHist[c]) >= 2
        /\ Len(history_of(sid[c])) >= Len(startHist[c]) + 4

\* C2: in every history, after every step of every turn (failed turns
\* included), each tool message answers a tool call of an earlier assistant
\* message of the same history.
C2_ToolMessageAnswersEarlierCall ==
    \A s \in Sessions :
        \A i \in 1..Len(history_of(s)) :
            history_of(s)[i].type = "tool" =>
                \E j \in 1..(i - 1) :
                    /\ history_of(s)[j].type = "ai"
                    /\ \E k \in 1..Len(history_of(s)[j].tool_calls) :
                          history_of(s)[j].tool_calls[k].id
                              = history_of(s)[i].tool_call_id

\* A turn with a failed tool call ended in a completion failure, and its tool
\* messages are in the history.
C2_Witness ==
    \E c \in Callers :
        /\ Returned(c) /\ raised[c] = "CompletionFailure"
        /\ toolErrs[c] # {}
        /\ history_of(sid[c])[Len(history_of(sid[c]))].type = "tool"

\* C3: a turn whose first completion response carries tool calls has, when it
\* ends, invoked the completion service exactly twice: once with the tool
\* bound (query_or_respond) and once without (generate).
C3_ToolTurnInvokesTwice ==
    \A c \in Callers :
        (Returned(c) /\ HasFirstResponse(c)
             /\ Len(FirstResponse(c).tool_calls) >= 1)
            => /\ llmCalls[c] = 2
               /\ withTools[c] = <<TRUE, FALSE>>
               /\ ran[c] = <<"query_or_respond", "tools", "generate">>

\* A turn whose first response carried MaxToolCalls tool calls has ended.
C3_Witness ==
    \E c \in Callers :
        /\ Returned(c) /\ HasFirstResponse(c)
        /\ Len(FirstResponse(c).tool_calls) = MaxToolCalls
        /\ MaxToolCalls >= 2
        /\ llmCalls[c] = 2

\* C4: a turn whose first completion response carries no tool call invokes
\* the completion service exactly once, and runs neither tools nor generate.
C4_DirectAnswerInvokesOnce ==
    \A c \in Callers :
        (Returned(c) /\ HasFirstResponse(c)
             /\ Len(FirstResponse(c).tool_calls) = 0)
            => /\ llmCalls[c] = 1
               /\ ran[c] = <<"query_or_respond">>

\* A turn answered directly has ended after a single completion invocation.
C4_Witness ==
    \E c \in Callers :
        /\ Returned(c) /\ HasFirstResponse(c)
        /\ Len(FirstResponse(c).tool_calls) = 0
        /\ llmCalls[c] = 1

\* C5: whenever generate has run, the context block it built is the blank-
\* line join, in order, of the contents of exactly the tool messages the
\* current turn appended; no tool message of an earlier turn is in it.
C5_ContextIsCurrentTurnTools ==
    \A c \in Callers :
        "generate" \in SeqRange(ran[c]) =>
            LET mine == OnlyToolMessages(TurnMessages(c))
            IN docs[c] = Join([i \in 1..Len(mine) |-> mine[i].content], "\n\n")

\* generate has run in a turn that follows a turn which failed after its tool
\* messages were appended.
C5_Witness ==
    \E c \in Callers :
        /\ "generate" \in SeqRange(ran[c])
        /\ startHist[c] # <<>>
        /\ startHist[c][Len(startHist[c])].type = "tool"
        /\ toolErrs[c] # {}

\* C6: a turn whose first response requests retrieval and in which every
\* external call succeeds returns the content of the finalize response and
\* extends the history by: user, assistant with the tool calls, one tool
\* message per call in request order, final assistant.
C6_RetrievalTurnShape ==
    \A c \in Callers :
        (Returned(c) /\ raised[c] = "none" /\ toolErrs[c] = {}
             /\ HasFirstResponse(c) /\ Len(FirstResponse(c).tool_calls) >= 1)
            => LET t == TurnMessages(c)
                   n == Len(FirstResponse(c).tool_calls)
               IN /\ Len(t) = n + 3
                  /\ t[1].type = "human"
                  /\ \A i \in 1..n :
                        /\ t[2 + i].type = "tool"
                        /\ t[2 + i].tool_call_id = t[2].tool_calls[i].id
                        /\ t[2 + i].content = retrieve(t[2].tool_calls[i].query)
                  /\ t[n + 3].type = "ai"
                  /\ t[n + 3].tool_calls = <<>>
                  /\ result[c] = Str(t[n + 3].content)

\* The scenario of the spec: one tool call on a fresh session, four messages,
\* and the finalize answer returned.
C6_Witness ==
    \E c \in Callers :
        /\ Returned(c) /\ raised[c] = "none" /\ toolErrs[c] = {}
        /\ startHist[c] = <<>>
        /\ Len(history_of(sid[c])) = 4
        /\ history_of(sid[c])[3].type = "tool"
        /\ result[c] = Str("You can get a refund within 30 days.")

\* C7: when the first completion call of a turn fails, chat reports the
\* failure and the history has grown by exactly the user message.
C7_FirstCallFailure ==
    \A c \in Callers :
        (Returned(c) /\ raised[c] = "CompletionFailure"
             /\ ran[c] = <<"query_or_respond">>)
            => /\ ReportedAsFailure(c)
               /\ Len(TurnMessages(c)) = 1
               /\ TurnMessages(c)[1].type = "human"

\* C8: when a completion call fails anywhere in a turn, the history keeps
\* only the user message of that turn.
C8_FailedTurnKeepsOnlyUserMessage ==
    \A c \in Callers :
        (Returned(c) /\ raised[c] = "CompletionFailure")
            => /\ Len(TurnMessages(c)) = 1
               /\ TurnMessages(c)[1].type = "human"

\* C9: the value chat returns for a failed turn is a typed failure, or at
\* least one the driver's emptiness check separates from an answer text.
C9_FailedTurnDistinguishable ==
    \A c \in Callers :
        (Returned(c) /\ raised[c] # "none") => ReportedAsFailure(c)

\* C10: once the tool node has run, every tool call request of the turn has
\* its tool message, appended to the history in request order; a call whose
\* execution failed has the error text as content; and the turn goes on to
\* generate instead of aborting.
C10_ToolFailureIsRecorded ==
    \A c \in Callers :
        "tools" \in SeqRange(ran[c]) =>
            /\ HasFirstResponse(c)
            /\ LET t == TurnMessages(c)
                   calls == FirstResponse(c).tool_calls
               IN /\ Len(t) >= 2 + Len(calls)
                  /\ \A i \in 1..Len(calls) :
                        /\ t[2 + i].type = "tool"
                        /\ t[2 + i].tool_call_id = calls[i].id
                        /\ (t[2 + i].content = ToolErrorText)
                               <=> (calls[i].id \in toolErrs[c])
            /\ \/ pc[c] = "generate"
               \/ /\ Returned(c)
                  /\ ran[c] = <<"query_or_respond", "tools", "generate">>

\* Every tool call of a turn failed, and generate still ran and answered.
C10_Witness ==
    \E c \in Callers :
        /\ Returned(c) /\ raised[c] = "none"
        /\ HasFirstResponse(c)
        /\ Cardinality(toolErrs[c]) = Len(FirstResponse(c).tool_calls)
        /\ Cardinality(toolErrs[c]) >= 2
        /\ "generate" \in SeqRange(ran[c])

\* C11: at most one turn is active on a session id at a time (a second call
\* waits or fails fast), so no update of one turn is overwritten by another:
\* the history holds every message appended to the session, in append order.
C11_OneActiveTurnPerSession ==
    /\ \A c, d \in Callers :
          (c # d /\ InFlight(c) /\ InFlight(d)) => sid[c] # sid[d]
    /\ \A s \in Sessions : history_of(s) = log[s]

\* C12: while turns run on distinct session ids, no turn is blocked by the
\* other, each completion call receives only messages of its own session, a
\* running turn's history is exactly what that turn has seen and appended,
\* and each session's history holds exactly the messages of its own turns.
C12_DistinctSessionsAreIsolated ==
    /\ \A c \in Callers :
          /\ InFlight(c) =>
                /\ ENABLED NodeStep(c)
                /\ history_of(sid[c]) = state[c]
          /\ \A i \in 1..Len(prompt[c]) :
                /\ prompt[c][i].type = "human"
                       => prompt[c][i].content = SessionText[sid[c]]
                /\ prompt[c][i].type # "system"
                       => prompt[c][i] \in SeqRange(log[sid[c]])
    /\ \A s \in Sessions :
          /\ history_of(s) = log[s]
          /\ \A i \in 1..Len(history_of(s)) :
                history_of(s)[i].type = "human"
                    => history_of(s)[i].content = SessionText[s]

\* Two turns on distinct session ids are in flight together, both after their
\* tool round, the second completion call of one of them already made.
C12_Witness ==
    /\ sid["main"] # sid["worker"]
    /\ pc["main"] = "generate"
    /\ Returned("worker") /\ raised["worker"] = "none"
    /\ "generate" \in SeqRange(ran["worker"])
    /\ Len(startHist["main"]) = 2 /\ Len(startHist["worker"]) = 2
    /\ Len(history_of(sid["main"])) >= 5
    /\ Len(history_of(sid["worker"])) >= 6

\* C13: add_documents with an empty sequence returns success and changes
\* neither the index nor its persisted copy.
C13_EmptyAddIsNoOp ==
    (lastAdd.raised # "nocall" /\ lastAdd.documents = <<>>)
        => /\ lastAdd.returned = TRUE
           /\ vector_store = lastAdd.store_before
           /\ disk = lastAdd.disk_before

\* C14: the result of add_documents when ingestion succeeded and persisting
\* failed differs from its result when ingestion failed.
C14_PersistenceFailureIsDistinct ==
    lastAdd.raised = "PersistenceFailure"
        => lastAdd.returned # add_documents_result("IngestionFailure")

\* C15: a retrieve call with an empty query is not passed on to the index,
\* and its tool message is not a retrieval result but reports the invalid
\* arguments.
C15_EmptyQueryIsRejected ==
    \A c \in Callers :
        ("tools" \in SeqRange(ran[c]) /\ HasFirstResponse(c)) =>
            \A i \in 1..Len(FirstResponse(c).tool_calls) :
                FirstResponse(c).tool_calls[i].query = "" =>
                    /\ FirstResponse(c).tool_calls[i] \notin SeqRange(invoked[c])
                    /\ TurnMessages(c)[2 + i].content # retrieve("")

\* C16: process_audio_file returns a result dictionary on every path, and
\* when transcription and response generation both succeeded (the whole
\* pipeline ran) its success flag is true.
C16_ProcessAudioFileReturnsDict ==
    dpc = "returned" =>
        /\ dret.kind = "dict"
        /\ (dres.input_text # "" /\ dres.response_text # "")
               => dret.dict.success = TRUE

\* C17: batch_process_audio_files never stops before the end of the list, and
\* returns one result per input file, in input order, tagged with the file.
C17_BatchReturnsOneResultPerFile ==
    /\ bpc # "raised"
    /\ bpc = "returned" =>
          /\ Len(results) = Len(files)
          /\ \A i \in 1..Len(files) : results[i].input_file = files[i]

\* C18: a turn runs query_or_respond, then possibly tools, then possibly
\* generate, each at most once and in that order; it returns after one step
\* or after all three; while it runs, the node it is at is the next one of
\* that order, so every step brings it nearer to the end; and the completion
\* call of generate is made without the tool bound.
C18_AtMostOneToolRound ==
    \A c \in Callers :
        /\ IsPrefix(ran[c], <<"query_or_respond", "tools", "generate">>)
        /\ llmCalls[c] <= 2
        /\ Len(withTools[c]) = 2 => withTools[c] = <<TRUE, FALSE>>
        /\ pc[c] \in {"idle", "returned"} \/ InFlight(c)
        /\ InFlight(c) =>
              /\ Len(ran[c]) < 3
              /\ pc[c] = <<"query_or_respond", "tools", "generate">>[Len(ran[c]) + 1]
        /\ Returned(c) =>
              ran[c] \in {<<"query_or_respond">>,
                          <<"query_or_respond", "tools", "generate">>}

\* A turn has gone through all three steps and returned an answer.
C18_Witness ==
    \E c \in Callers :
        /\ Returned(c) /\ raised[c] = "none"
        /\ ran[c] = <<"query_or_respond", "tools", "generate">>
        /\ llmCalls[c] = 2
        /\ turns = 2

\* The history generate read: the turn's messages up to the tool messages.
HistoryAtGenerate(c) ==
    SubSeq(state[c], 1,
           Len(startHist[c]) + 2 + Len(FirstResponse(c).tool_calls))

\* C19: the prompt generate sends is the fresh system instruction (directive
\* and context block) followed by, in history order, exactly the history
\* messages that are neither tool messages nor assistant messages carrying
\* tool calls; none of these two kinds is in the prompt, of any turn.
C19_GeneratePromptContent ==
    \A c \in Callers :
        ("generate" \in SeqRange(ran[c]) /\ HasFirstResponse(c)) =>
            LET Replayed(m) ==
                    \/ m.type \in {"human", "system"}
                    \/ (m.type = "ai" /\ m.tool_calls = <<>>)
            IN /\ Len(prompt[c]) >= 1
               /\ prompt[c][1] = SystemMessage(Directive \o docs[c])
               /\ Tail(prompt[c]) = SelectSeq(HistoryAtGenerate(c), Replayed)
               /\ \A i \in 2..Len(prompt[c]) :
                     /\ prompt[c][i].type # "tool"
                     /\ prompt[c][i].tool_calls = <<>>

\* generate has run in a second turn of a session whose first turn went
\* through a tool round and was answered.
C19_Witness ==
    \E c \in Callers :
        /\ "generate" \in SeqRange(ran[c])
        /\ Len(startHist[c]) >= 4
        /\ startHist[c][2].tool_calls # <<>>
        /\ startHist[c][3].type = "tool"
        /\ startHist[c][Len(startHist[c])].type = "ai"
        /\ Len(prompt[c]) = 4

\* C20: once the tool node has run, retrieve has been run exactly once for
\* every tool call of the assistant message, and the turn holds exactly one
\* tool message per call, in request order, right after that assistant
\* message and before the message generate appends.
C20_EachToolCallRunOnce ==
    \A c \in Callers :
        ("tools" \in SeqRange(ran[c]) /\ HasFirstResponse(c)) =>
            LET calls == FirstResponse(c).tool_calls
                t == TurnMessages(c)
                tm == OnlyToolMessages(t)
            IN /\ invoked[c] = calls
               /\ Len(tm) = Len(calls)
               /\ \A i \in 1..Len(calls) : tm[i].tool_call_id = calls[i].id
               /\ Len(t) >= 2 + Len(calls)
               /\ \A i \in 1..Len(calls) : t[2 + i] = tm[i]
               /\ \A i \in 1..Len(t) : i > 2 + Len(calls) => t[i].type = "ai"
               /\ "generate" \in SeqRange(ran[c])
                     => ran[c] = <<"query_or_respond", "tools", "generate">>

\* A turn with MaxToolCalls tool calls, one of them failing, has run tools
\* and generate.
C20_Witness ==
    \E c \in Callers :
        /\ Returned(c) /\ raised[c] = "none"
        /\ "generate" \in SeqRange(ran[c])
        /\ Len(invoked[c]) = MaxToolCalls /\ MaxToolCalls >= 2
        /\ Cardinality(toolErrs[c]) = 1
        /\ Len(TurnMessages(c)) = MaxToolCalls + 3

LiveStages == <<"transcription", "chat", "synthesis">>

\* C21: in process_live_conversation the stages run in the order
\* transcription, chat, synthesis; chat is called only after a non-empty
\* transcription and synthesis only after a non-empty chat text; the result
\* has success true only if all three stages ran and none of them raised;
\* a call that returned before synthesis keeps success false.
C21_LiveStagesGatedAndFlagged ==
    /\ IsPrefix(stages, LiveStages)
    /\ Len(stages) >= 2 => heard # ""
    /\ Len(stages) >= 3 => lres.response_text # ""
    /\ lres.success => (stages = LiveStages /\ stageErrors = {})
    /\ (lpc = "returned" /\ stages # LiveStages) => ~lres.success

RECURSIVE HumanMessages(_)
\* The user messages of a sequence of messages, in order.
HumanMessages(messages) ==
    IF messages = <<>> THEN <<>>
    ELSE IF Head(messages).type = "human"
         THEN <<Head(messages)>> \o HumanMessages(Tail(messages))
         ELSE HumanMessages(Tail(messages))

\* C22: every chat call of the pipeline driver runs on the session id
\* "default-thread": no other session gets a message; after k inputs that
\* session's history holds every message of the k turns, one user message
\* per input; the turn for input i starts from the history of inputs
\* 1..i-1, and its completion calls receive it: the first call gets that
\* history whole, followed by the new user message, and the call made by
\* generate gets its conversational messages.
C22_DriverTurnsShareDefaultThread ==
    /\ \A s \in Sessions \ {"default-thread"} :
           history_of(s) = <<>> /\ log[s] = <<>>
    /\ pc["main"] # "idle" => sid["main"] = "default-thread"
    /\ history_of("default-thread") = log["default-thread"]
    /\ Len(HumanMessages(history_of("default-thread"))) = turns
    /\ pc["main"] # "idle" =>
           /\ Len(HumanMessages(startHist["main"])) = turns - 1
           /\ IsPrefix(startHist["main"], history_of("default-thread"))
    /\ (pc["main"] # "idle" /\ llmCalls["main"] >= 1) =>
           IF withTools["main"][llmCalls["main"]]
           THEN /\ IsPrefix(startHist["main"], prompt["main"])
                /\ Len(prompt["main"]) = Len(startHist["main"]) + 1
                /\ prompt["main"][Len(prompt["main"])].type = "human"
           ELSE IsPrefix(conversation_messages(startHist["main"]),
                         Tail(prompt["main"]))

\* The driver has processed two inputs and the second, a live conversation,
\* has been answered: its completion call was made on a history that holds
\* the first turn's question and answer, and the session holds both turns.
C22_Witness ==
    /\ turns = 2
    /\ lpc = "returned" /\ lres.success /\ stageErrors = {}
    /\ llmCalls["main"] >= 1
    /\ Len(startHist["main"]) >= 2
    /\ startHist["main"][1].type = "human"
    /\ startHist["main"][Len(startHist["main"])].content \in AnswerTexts \ {""}
    /\ Len(history_of("default-thread")) = Len(startHist["main"]) + 2
    /\ prompt["main"] = startHist["main"] \o <<HumanMessage(heard)>>

====
